---- MODULE Spec2Model ----
(***************************************************************************)
(* Ship of Theseus (src/src/main.rs): the request lifecycle of ShipApp.    *)
(* One UI thread owns ShipApp and runs update() once per tick: it drains   *)
(* the mpsc channel, then lays out the GUI (where a Send click may be      *)
(* handled).  scan_research and trigger_ollama_generation spawn detached   *)
(* worker threads that report back over the channel as plain Strings.      *)
(*                                                                         *)
(* A Rust String is modelled as the sequence of its UTF-8 bytes.  An ASCII *)
(* byte is written as its character ("a"), any other byte as its two hex   *)
(* digits ("C3"), so that byte offsets, char boundaries and the length     *)
(* changes of to_lowercase are those of the program.                       *)
(*                                                                         *)
(* Not state of the model: the model selector, the VRAM probe and the      *)
(* research directory path (what the directory holds when a scan runs is   *)
(* the environment's choice among Corpora).  The variables turn, ignored   *)
(* and tag_replies and the field `from` of a queued message observe the    *)
(* program; nothing the program does reads them.                           *)
(***************************************************************************)
EXTENDS Integers, Sequences, FiniteSets, TLC

VARIABLES
    input_text,            \* ShipApp.input_text
    messages,              \* ShipApp.messages: Seq of [role, has_image, content]
    state,                 \* ShipApp.state: "Idle" | "Scanning" | "Generating"
    research_results,      \* ShipApp.research_results
    is_reasoning_mode,     \* ShipApp.is_reasoning_mode
    current_image_base64,  \* ShipApp.current_image_base64: None or Some(payload)
    current_image_path,    \* ShipApp.current_image_path
    chan,                  \* the mpsc queue tx -> rx, oldest first: Seq of [text, from]
    workers,               \* the spawned threads, in spawn order
    turn,                  \* observer: what happened since the last accepted Send
    ignored,               \* observer: Send clicks dropped by the Idle check
    tag_replies,           \* observer: backend replies so far that read as a tag
    content,               \* get_relevant_snippet: argument content
    keyword,               \* get_relevant_snippet: argument keyword
    snippet                \* get_relevant_snippet: outcome

vars == <<input_text, messages, state, research_results, is_reasoning_mode,
          current_image_base64, current_image_path, chan, workers, turn,
          ignored, tag_replies, content, keyword, snippet>>

appVars == <<input_text, messages, state, research_results, is_reasoning_mode,
             current_image_base64, current_image_path, chan, workers, turn,
             ignored, tag_replies>>

snipVars == <<content, keyword, snippet>>

(***************************************************************************)
(* Bounds of the model.                                                    *)
(***************************************************************************)
\* accepted Send clicks per run
MaxSubmits == 2
\* backend replies per run whose text reads as a channel tag
MaxTagReplies == 1
\* Send clicks dropped by the Idle check that the observer counts
MaxIgnored == 1

(***************************************************************************)
(* String literals of the program.                                         *)
(***************************************************************************)
None == [some |-> FALSE, value |-> <<>>]
Some(v) == [some |-> TRUE, value |-> v]

DONE == <<"_","_","D","O","N","E","_","_">>
STATUS == <<"_","_","S","T","A","T","U","S","_","_">>
RESEARCH_DATA == <<"_","_","R","E","S","E","A","R","C","H","_","D","A","T","A","_","_">>
RESEARCH_EMPTY == <<"_","_","R","E","S","E","A","R","C","H","_","E","M","P","T","Y","_","_">>
ERROR_TEXT == <<"E","r","r","o","r",":"," ","F","a","i","l","e","d"," ","t","o"," ","c","o","n","n","e","c","t"," ","t","o"," ","O","l","l","a","m","a",".">>

\* format!("__STATUS__: Scanning for signal '{}'...", keyword)
StatusText(kw) ==
    <<"_","_","S","T","A","T","U","S","_","_",":"," ","S","c","a","n","n","i","n","g"," ","f","o","r"," ","s","i","g","n","a","l"," ","'">>
    \o kw \o <<"'",".",".",".">>

\* format!("\n[SOURCE: {}]\n{}\n", filename, snippet)
SourceBlock(filename, snip) ==
    <<"\n","[","S","O","U","R","C","E",":"," ">> \o filename \o <<"]","\n">> \o snip \o <<"\n">>

\* format!("__RESEARCH_DATA__:{}", found_data)
ResearchDataText(found_data) == RESEARCH_DATA \o <<":">> \o found_data

\* format!("### RESEARCH DATA:\n{}\n\n### USER QUERY:\n{}", research_context, prompt)
final_content(research_context, prompt) ==
    IF research_context # <<>>
    THEN <<"#","#","#"," ","R","E","S","E","A","R","C","H"," ","D","A","T","A",":","\n">>
         \o research_context
         \o <<"\n","\n","#","#","#"," ","U","S","E","R"," ","Q","U","E","R","Y",":","\n">>
         \o prompt
    ELSE prompt

(***************************************************************************)
(* str operations, on bytes.                                               *)
(***************************************************************************)
Min(a, b) == IF a < b THEN a ELSE b
Max(a, b) == IF a > b THEN a ELSE b

\* UTF-8 continuation bytes (10xxxxxx) and the lead bytes of two-byte chars
ContinuationBytes == {"87", "89", "A9", "B0"}
LeadBytes == {"C3", "C4", "CC"}

UpperAscii == <<"A","B","C","D","E","F","G","H","I","J","K","L","M","N","O","P","Q","R","S","T","U","V","W","X","Y","Z">>
LowerAscii == <<"a","b","c","d","e","f","g","h","i","j","k","l","m","n","o","p","q","r","s","t","u","v","w","x","y","z">>

\* char::to_lowercase of the char that starts at byte i (1-based) of s:
\* 'A'..'Z' -> 'a'..'z'; U+00C9 (C3 89) -> U+00E9 (C3 A9);
\* U+0130 (C4 B0) -> 'i' U+0307 (69 CC 87); every other char is unchanged.
LowerChar(s, i) ==
    IF s[i] \in ContinuationBytes THEN <<>>
    ELSE IF s[i] \in LeadBytes /\ i < Len(s)
    THEN IF <<s[i], s[i+1]>> = <<"C3","89">> THEN <<"C3","A9">>
         ELSE IF <<s[i], s[i+1]>> = <<"C4","B0">> THEN <<"i","CC","87">>
         ELSE <<s[i], s[i+1]>>
    ELSE IF \E k \in 1..26 : UpperAscii[k] = s[i]
    THEN <<LowerAscii[CHOOSE k \in 1..26 : UpperAscii[k] = s[i]]>>
    ELSE <<s[i]>>

RECURSIVE LowerRange(_, _, _)
LowerRange(s, lo, hi) ==
    IF lo > hi THEN <<>>
    ELSE IF lo = hi THEN LowerChar(s, lo)
    ELSE LET mid == (lo + hi) \div 2
         IN LowerRange(s, lo, mid) \o LowerRange(s, mid + 1, hi)

\* str::to_lowercase
to_lowercase(s) == LowerRange(s, 1, Len(s))

\* str::starts_with
starts_with(s, p) == Len(s) >= Len(p) /\ SubSeq(s, 1, Len(p)) = p

\* str::trim_start_matches: strips the prefix as often as it repeats
RECURSIVE trim_start_matches(_, _)
trim_start_matches(s, p) ==
    IF p # <<>> /\ starts_with(s, p)
    THEN trim_start_matches(SubSeq(s, Len(p) + 1, Len(s)), p)
    ELSE s

\* the 0-based byte offsets at which p occurs in s
Occurrences(s, p) ==
    {i \in 0..(Len(s) - Len(p)) : SubSeq(s, i + 1, i + Len(p)) = p}

\* str::contains
contains(s, p) == Occurrences(s, p) # {}

\* str::find: Some(offset of the first occurrence) or None
find(s, p) ==
    IF Occurrences(s, p) = {} THEN None
    ELSE Some(CHOOSE i \in Occurrences(s, p) : \A j \in Occurrences(s, p) : i <= j)

\* str::is_char_boundary, for a 0-based byte offset
is_char_boundary(s, idx) ==
    \/ idx = 0
    \/ idx = Len(s)
    \/ idx < Len(s) /\ s[idx + 1] \notin ContinuationBytes

\* &s[start..end]: panics unless start <= end <= len and both are char boundaries
Slice(s, start, end) ==
    IF start <= end /\ end <= Len(s)
       /\ is_char_boundary(s, start) /\ is_char_boundary(s, end)
    THEN [panic |-> FALSE, value |-> SubSeq(s, start + 1, end)]
    ELSE [panic |-> TRUE, value |-> <<>>]

\* the context window of get_relevant_snippet
SnippetBefore == 200
SnippetAfter == 500

\* usize::saturating_sub
saturating_sub(a, b) == IF a >= b THEN a - b ELSE 0

get_relevant_snippet(doc, kw) ==
    LET lower_content == to_lowercase(doc)
        lower_keyword == to_lowercase(kw)
        index == find(lower_content, lower_keyword)
    IN  IF index.some
        THEN LET start == saturating_sub(index.value, SnippetBefore)
                 end == Min(index.value + SnippetAfter, Len(doc))
             IN  Slice(doc, start, end)
        ELSE [panic |-> FALSE, value |-> <<>>]

(***************************************************************************)
(* The inputs the environment supplies.                                    *)
(***************************************************************************)
\* what the user may type into the input box (the box may be left empty)
Inputs == {<<>>, <<"K">>}

\* pdf_extract::extract_text outcomes
Extracted(text) == [ok |-> TRUE, value |-> text]
ExtractErr == [ok |-> FALSE, value |-> <<>>]

Rep(c, n) == [i \in 1..n |-> c]

DocFail == [file_name |-> <<"f",".","p","d","f">>, text |-> ExtractErr]
DocMiss == [file_name |-> <<"m",".","p","d","f">>, text |-> Extracted(<<"z","z">>)]
DocMatch == [file_name |-> <<"a",".","p","d","f">>, text |-> Extracted(<<"a"," ","k">>)]
DocMatch2 == [file_name |-> <<"b",".","p","d","f">>, text |-> Extracted(<<"K","z">>)]
\* U+00E9, 199 ASCII bytes, then the keyword at byte 201
DocLong == [file_name |-> <<"l",".","p","d","f">>,
            text |-> Extracted(<<"C3","A9">> \o Rep("x", SnippetBefore - 1) \o <<"k">>)]

\* what glob::glob and the walk of the research directory may yield
Corpora ==
    { [glob_ok |-> FALSE, docs |-> <<>>],
      [glob_ok |-> TRUE, docs |-> <<>>],
      [glob_ok |-> TRUE, docs |-> <<DocFail>>],
      [glob_ok |-> TRUE, docs |-> <<DocMiss>>],
      [glob_ok |-> TRUE, docs |-> <<DocFail, DocMatch>>],
      [glob_ok |-> TRUE, docs |-> <<DocMatch, DocFail, DocMatch2>>],
      [glob_ok |-> TRUE, docs |-> <<DocLong>>],
      [glob_ok |-> TRUE, docs |-> <<DocFail, DocLong>>] }

\* ollama.send_chat_messages outcomes: Ok with a message, Ok without, Err
OkMessage(text) == [kind |-> "ok", text |-> text]
OkNoMessage == [kind |-> "none", text |-> <<>>]
BackendErr == [kind |-> "err", text |-> <<>>]

ReplyTexts == { <<"o","k">>, DONE, STATUS, RESEARCH_EMPTY, RESEARCH_DATA \o <<":","e">> }
Responses == {OkMessage(t) : t \in ReplyTexts} \cup {OkNoMessage, BackendErr}

\* the text reads as one of the tags the message handler tests for
IsTag(text) ==
    \/ text = DONE
    \/ starts_with(text, STATUS)
    \/ starts_with(text, RESEARCH_DATA)
    \/ text = RESEARCH_EMPTY

(***************************************************************************)
(* ShipApp, as the record the UI thread works on.                          *)
(***************************************************************************)
Message(role, text, has_image) == [role |-> role, has_image |-> has_image, content |-> text]

Worker(kind, pc, kw, prompt, img_data, research_context) ==
    [kind |-> kind, pc |-> pc, keyword |-> kw, prompt |-> prompt,
     img_data |-> img_data, research_context |-> research_context]

\* a thread that has returned: its captured values are gone
Exited(w) == Worker(w.kind, "done", <<>>, <<>>, None, <<>>)
\* a thread that has unwound from a panic
Panicked(w) == Worker(w.kind, "panicked", <<>>, <<>>, None, <<>>)

App == [state |-> state, messages |-> messages, research_results |-> research_results,
        current_image_base64 |-> current_image_base64, workers |-> workers, turn |-> turn]

\* observer: note in the turn's log what the UI thread just did (from = 0: the
\* GUI; from = i: while handling a message sent by worker i)
Logged(o, ev, from) ==
    [o EXCEPT !.turn.log = Append(@, <<ev, from>>)]

scan_research(o, kw) ==
    LET o1 == Logged([o EXCEPT !.state = "Scanning"], "Scanning", 0)
    IN  [o1 EXCEPT !.workers = Append(@, Worker("retrieval", "status", kw, <<>>, None, <<>>))]

trigger_ollama_generation(o, prompt, from) ==
    LET o1 == Logged([o EXCEPT !.state = "Generating"], "Generating", from)
        img_data == o.current_image_base64
        research_context == o.research_results
    IN  [o1 EXCEPT !.research_results = <<>>,
                   !.workers = Append(@, Worker("inference", "request", <<>>, prompt,
                                                img_data, research_context)),
                   !.current_image_base64 = None]

\* variant: the prompt re-read from the first Turn of the history
TriggerFromLastUser_FirstTurn(o, from) ==
    IF o.messages # <<>> /\ o.messages[Len(o.messages)].role = "user"
    THEN trigger_ollama_generation(o, o.messages[1].content, from)
    ELSE o

\* if let Some(last_msg) = self.messages.last() { if last_msg.role == "user" { ... } }
TriggerFromLastUser(o, from) ==
    IF o.messages # <<>> /\ o.messages[Len(o.messages)].role = "user"
    THEN trigger_ollama_generation(o, o.messages[Len(o.messages)].content, from)
    ELSE o

\* variant: __DONE__ honoured only while Generating
HandleDone_OnlyWhileGenerating(o, from) ==
    IF o.state = "Generating" THEN Logged([o EXCEPT !.state = "Idle"], "Idle", from) ELSE o

HandleDone(o, from) ==
    Logged([o EXCEPT !.state = "Idle"], "Idle", from)

HandleResearchData(o, msg, from) ==
    LET data == trim_start_matches(msg, RESEARCH_DATA)
    IN  TriggerFromLastUser(Logged([o EXCEPT !.research_results = data], "DATA", from), from)

HandleResearchEmpty(o, from) ==
    TriggerFromLastUser(Logged(o, "EMPTY", from), from)

\* variant: every content event opens a new assistant Turn
HandleContent_AlwaysPush(o, msg) ==
    IF o.messages = <<>> THEN o
    ELSE [o EXCEPT !.turn.streamed = Append(@, msg),
                   !.messages = Append(@, Message("assistant", msg, FALSE))]

\* variant: a content event also ends the turn
HandleContent_MarksIdle(o, msg) ==
    IF o.messages = <<>> THEN o
    ELSE LET n == Len(o.messages)
             o1 == [o EXCEPT !.turn.streamed = Append(@, msg), !.state = "Idle"]
         IN  IF o.messages[n].role = "assistant"
             THEN [o1 EXCEPT !.messages[n].content = @ \o msg]
             ELSE [o1 EXCEPT !.messages = Append(@, Message("assistant", msg, FALSE))]

\* variant: a content event replaces the text of the assistant Turn
HandleContent_ReplacesText(o, msg) ==
    IF o.messages = <<>> THEN o
    ELSE LET n == Len(o.messages)
             o1 == [o EXCEPT !.turn.streamed = Append(@, msg)]
         IN  IF o.messages[n].role = "assistant"
             THEN [o1 EXCEPT !.messages[n].content = msg]
             ELSE [o1 EXCEPT !.messages = Append(@, Message("assistant", msg, FALSE))]

HandleContent(o, msg) ==
    IF o.messages = <<>> THEN o
    ELSE LET n == Len(o.messages)
             o1 == [o EXCEPT !.turn.streamed = Append(@, msg)]
         IN  IF o.messages[n].role = "assistant"
             THEN [o1 EXCEPT !.messages[n].content = @ \o msg]
             ELSE [o1 EXCEPT !.messages = Append(@, Message("assistant", msg, FALSE))]

\* the body of `while let Ok(msg) = rx_guard.try_recv()` for one message
HandleMsg(o, m) ==
    IF m.text = DONE THEN HandleDone(o, m.from)
    ELSE IF starts_with(m.text, STATUS) THEN o
    ELSE IF starts_with(m.text, RESEARCH_DATA) THEN HandleResearchData(o, m.text, m.from)
    ELSE IF m.text = RESEARCH_EMPTY THEN HandleResearchEmpty(o, m.from)
    ELSE HandleContent(o, m.text)

\* the whole drain loop over the queued messages q, oldest first
RECURSIVE Drain(_, _)
Drain(o, q) ==
    IF q = <<>> THEN o ELSE Drain(HandleMsg(o, Head(q)), Tail(q))

\* the Send button handler, state == Idle
SendAccepted(o, user_text, reasoning) ==
    LET pushed == Append(o.messages, Message("user", user_text, o.current_image_base64.some))
        o1 == [o EXCEPT !.messages = pushed,
                        !.turn = [hist |-> pushed, base |-> Len(o.workers),
                                  log |-> << <<"Idle", 0>> >>, streamed |-> <<>>]]
    IN  IF reasoning THEN scan_research(o1, user_text)
        ELSE trigger_ollama_generation(o1, user_text, 0)

\* variant: the Send handler without its Idle check
SendEnabled_NoIdleCheck(s) == TRUE

\* the Idle check of the Send button
SendEnabled(s) == s = "Idle"

Submitted == Cardinality({i \in 1..Len(messages) : messages[i].role = "user"})

Install(o) ==
    /\ state' = o.state
    /\ messages' = o.messages
    /\ research_results' = o.research_results
    /\ current_image_base64' = o.current_image_base64
    /\ workers' = o.workers
    /\ turn' = o.turn

(***************************************************************************)
(* The UI thread: update().                                                *)
(***************************************************************************)
\* ui.text_edit_singleline(&mut self.input_text)
TypeInput ==
    /\ \E t \in Inputs \ {input_text} : input_text' = t
    /\ UNCHANGED <<snipVars, messages, state, research_results, is_reasoning_mode,
                   current_image_base64, current_image_path, chan, workers, turn,
                   ignored, tag_replies>>

\* ui.checkbox(&mut self.is_reasoning_mode, ...)
ToggleReasoning ==
    /\ is_reasoning_mode' = ~is_reasoning_mode
    /\ UNCHANGED <<snipVars, input_text, messages, state, research_results,
                   current_image_base64, current_image_path, chan, workers, turn,
                   ignored, tag_replies>>

\* ui.button(btn_text).clicked() && self.state == AppState::Idle
ClickSend ==
    IF SendEnabled(state)
    THEN /\ Submitted < MaxSubmits
         /\ Install(SendAccepted(App, input_text, is_reasoning_mode))
         /\ input_text' = <<>>
         /\ UNCHANGED <<snipVars, is_reasoning_mode, current_image_path, chan, ignored, tag_replies>>
    ELSE /\ ignored < MaxIgnored
         /\ ignored' = ignored + 1
         /\ UNCHANGED <<snipVars, input_text, messages, state, research_results, is_reasoning_mode,
                        current_image_base64, current_image_path, chan, workers, turn,
                        tag_replies>>

\* the message handler: drains everything queued, without waiting
Poll ==
    /\ chan # <<>>
    /\ Install(Drain(App, chan))
    /\ chan' = <<>>
    /\ UNCHANGED <<snipVars, input_text, is_reasoning_mode, current_image_path, ignored, tag_replies>>

(***************************************************************************)
(* The worker threads.                                                     *)
(***************************************************************************)
Send(i, text) == chan' = Append(chan, [text |-> text, from |-> i])

\* the per-document loop of scan_research over docs, found being found_data so far
RECURSIVE ScanDocs(_, _, _)
ScanDocs(docs, kw, found) ==
    IF docs = <<>> THEN [panic |-> FALSE, value |-> found]
    ELSE LET d == Head(docs)
         IN  IF d.text.ok /\ contains(to_lowercase(d.text.value), to_lowercase(kw))
             THEN LET snip == get_relevant_snippet(d.text.value, kw)
                  IN  IF snip.panic THEN [panic |-> TRUE, value |-> <<>>]
                      ELSE ScanDocs(Tail(docs), kw,
                                    found \o SourceBlock(d.file_name, snip.value))
             ELSE ScanDocs(Tail(docs), kw, found)

ScanCorpus(corpus, kw) ==
    IF corpus.glob_ok THEN ScanDocs(corpus.docs, kw, <<>>)
    ELSE [panic |-> FALSE, value |-> <<>>]

\* tx.send of the terminal event of the retrieval worker
ResearchTerminal(found_data) ==
    IF found_data = <<>> THEN RESEARCH_EMPTY ELSE ResearchDataText(found_data)

RetrievalStatus(i) ==
    /\ workers[i].kind = "retrieval" /\ workers[i].pc = "status"
    /\ Send(i, StatusText(workers[i].keyword))
    /\ workers' = [workers EXCEPT ![i].pc = "scan"]
    /\ UNCHANGED <<snipVars, input_text, messages, state, research_results, is_reasoning_mode,
                   current_image_base64, current_image_path, turn, ignored, tag_replies>>

RetrievalScanOver(i, corpora) ==
    /\ workers[i].kind = "retrieval" /\ workers[i].pc = "scan"
    /\ \E corpus \in corpora :
         LET r == ScanCorpus(corpus, workers[i].keyword)
         IN  IF r.panic
             THEN /\ workers' = [workers EXCEPT ![i] = Panicked(@)]
                  /\ chan' = chan
             ELSE /\ workers' = [workers EXCEPT ![i] = Exited(@)]
                  /\ Send(i, ResearchTerminal(r.value))
    /\ UNCHANGED <<snipVars, input_text, messages, state, research_results, is_reasoning_mode,
                   current_image_base64, current_image_path, turn, ignored, tag_replies>>

RetrievalScan(i) == RetrievalScanOver(i, Corpora)

\* what the inference worker sends for a backend outcome, before __DONE__
ReplySends(r) ==
    IF r.kind = "ok" THEN <<r.text>>
    ELSE IF r.kind = "err" THEN <<ERROR_TEXT>>
    ELSE <<>>

InferenceReplyFrom(i, responses, max_tags) ==
    /\ workers[i].kind = "inference" /\ workers[i].pc = "request"
    /\ \E r \in responses :
         LET tagged == r.kind = "ok" /\ IsTag(r.text)
         IN  /\ tagged => tag_replies < max_tags
             /\ tag_replies' = IF tagged THEN tag_replies + 1 ELSE tag_replies
             /\ chan' = chan \o [k \in 1..Len(ReplySends(r)) |->
                                   [text |-> ReplySends(r)[k], from |-> i]]
    /\ workers' = [workers EXCEPT ![i].pc = "finish"]
    /\ UNCHANGED <<snipVars, input_text, messages, state, research_results, is_reasoning_mode,
                   current_image_base64, current_image_path, turn, ignored>>

InferenceReply(i) == InferenceReplyFrom(i, Responses, MaxTagReplies)

InferenceDone(i) ==
    /\ workers[i].kind = "inference" /\ workers[i].pc = "finish"
    /\ Send(i, DONE)
    /\ workers' = [workers EXCEPT ![i] = Exited(@)]
    /\ UNCHANGED <<snipVars, input_text, messages, state, research_results, is_reasoning_mode,
                   current_image_base64, current_image_path, turn, ignored, tag_replies>>

WorkerStep ==
    \E i \in 1..Len(workers) :
        \/ RetrievalStatus(i)
        \/ RetrievalScan(i)
        \/ InferenceReply(i)
        \/ InferenceDone(i)

(***************************************************************************)
(* The program.                                                            *)
(***************************************************************************)
NoSnippet == [called |-> FALSE, panic |-> FALSE, value |-> <<>>]

Init ==
    /\ input_text = <<>>
    /\ messages = <<>>
    /\ state = "Idle"
    /\ research_results = <<>>
    /\ is_reasoning_mode = FALSE
    /\ current_image_base64 = None
    /\ current_image_path = None
    /\ chan = <<>>
    /\ workers = <<>>
    /\ turn = [hist |-> <<>>, base |-> 0, log |-> <<>>, streamed |-> <<>>]
    /\ ignored = 0
    /\ tag_replies = 0
    /\ content = <<>>
    /\ keyword = <<>>
    /\ snippet = NoSnippet

Next ==
    \/ TypeInput
    \/ ToggleReasoning
    \/ ClickSend
    \/ Poll
    \/ \E i \in 1..Len(workers) : RetrievalStatus(i)
    \/ \E i \in 1..Len(workers) : RetrievalScan(i)
    \/ \E i \in 1..Len(workers) : InferenceReply(i)
    \/ \E i \in 1..Len(workers) : InferenceDone(i)

Spec == Init /\ [][Next]_vars

(***************************************************************************)
(* The same program against a narrower environment: the backend answers    *)
(* "ok" or "__RESEARCH_EMPTY__" (the latter up to MaxStaleTagReplies       *)
(* times), the input box is left empty, and the research directory holds   *)
(* one matching document or none.                                          *)
(***************************************************************************)
MaxStaleTagReplies == 2

StaleResponses == {OkMessage(<<"o","k">>), OkMessage(RESEARCH_EMPTY)}
StaleCorpora == { [glob_ok |-> TRUE, docs |-> <<>>],
                  [glob_ok |-> TRUE, docs |-> <<DocMatch>>] }

StaleNext ==
    \/ ToggleReasoning
    \/ ClickSend
    \/ Poll
    \/ \E i \in 1..Len(workers) : RetrievalStatus(i)
    \/ \E i \in 1..Len(workers) : RetrievalScanOver(i, StaleCorpora)
    \/ \E i \in 1..Len(workers) : InferenceReplyFrom(i, StaleResponses, MaxStaleTagReplies)
    \/ \E i \in 1..Len(workers) : InferenceDone(i)

StaleSpec == Init /\ [][StaleNext]_vars

(***************************************************************************)
(* trigger_ollama_generation on a ShipApp that holds a pending image.      *)
(* main.rs declares current_image_base64 and current_image_path and reads  *)
(* the former (has_image of the user Turn, the img_data snapshot, the      *)
(* attachment to the request), but no code in main.rs assigns Some to      *)
(* either, so under Spec both stay None.  ImageSpec starts the same        *)
(* program with the two Option fields drawn from None and Some.            *)
(***************************************************************************)
PendingImages ==
    { [base64 |-> None, path |-> None],
      [base64 |-> Some(<<"b">>), path |-> Some(<<"p">>)] }

ImageInit ==
    /\ input_text = <<>>
    /\ messages = <<>>
    /\ state = "Idle"
    /\ research_results = <<>>
    /\ is_reasoning_mode = FALSE
    /\ \E img \in PendingImages :
          /\ current_image_base64 = img.base64
          /\ current_image_path = img.path
    /\ chan = <<>>
    /\ workers = <<>>
    /\ turn = [hist |-> <<>>, base |-> 0, log |-> <<>>, streamed |-> <<>>]
    /\ ignored = 0
    /\ tag_replies = 0
    /\ content = <<>>
    /\ keyword = <<>>
    /\ snippet = NoSnippet

ImageSpec == ImageInit /\ [][StaleNext]_vars

(***************************************************************************)
(* get_relevant_snippet on its own, over a family of documents.            *)
(***************************************************************************)
\* how far the paddings range around 0 and around the two window sizes
SnipPad == 2

PadsAround(n) == (0..SnipPad) \cup ((n - SnipPad)..(n + SnipPad))

\* nothing, U+00E9 (two bytes, its own lowercase) or U+0130 (two bytes,
\* three bytes once lowercased)
SnipPrefixes == { <<>>, <<"C3","A9">>, <<"C4","B0">> }
SnipWords == { <<"K">>, <<"k","C3","A9">>, <<"q">> }
SnipKeywords == { <<"k">>, <<"K">> }

SnipDocs ==
    { p \o Rep("x", a) \o w \o Rep("y", b) :
        p \in SnipPrefixes, a \in PadsAround(SnippetBefore),
        w \in SnipWords, b \in PadsAround(SnippetAfter) }

SnipInit ==
    /\ input_text = <<>>
    /\ messages = <<>>
    /\ state = "Idle"
    /\ research_results = <<>>
    /\ is_reasoning_mode = FALSE
    /\ current_image_base64 = None
    /\ current_image_path = None
    /\ chan = <<>>
    /\ workers = <<>>
    /\ turn = [hist |-> <<>>, base |-> 0, log |-> <<>>, streamed |-> <<>>]
    /\ ignored = 0
    /\ tag_replies = 0
    /\ content \in SnipDocs
    /\ keyword \in SnipKeywords
    /\ snippet = NoSnippet

\* let snippet = ShipApp::get_relevant_snippet(&content, &keyword)
SnipCall ==
    /\ ~snippet.called
    /\ snippet' = [called |-> TRUE,
                   panic |-> get_relevant_snippet(content, keyword).panic,
                   value |-> get_relevant_snippet(content, keyword).value]
    /\ UNCHANGED <<appVars, content, keyword>>

SnipNext == SnipCall

SnipSpec == SnipInit /\ [][SnipNext]_vars

\* worker threads run to completion and update() is called on every tick
FairSpec == Spec /\ WF_vars(WorkerStep) /\ WF_vars(Poll)

(***************************************************************************)
(* Observations used by the properties.                                    *)
(***************************************************************************)
LifecycleStates == {"Idle", "Scanning", "Generating"}

\* the workers whose terminal event the message handler has not applied yet:
\* the thread has not returned, or something it sent is still queued (the
\* terminal event is the last message a worker sends)
AwaitingTerminal ==
    {i \in 1..Len(workers) :
        \/ workers[i].pc # "done"
        \/ \E k \in 1..Len(chan) : chan[k].from = i}

UserTurns(h) == Cardinality({i \in 1..Len(h) : h[i].role = "user"})

RECURSIVE Flatten(_)
Flatten(ss) == IF ss = <<>> THEN <<>> ELSE Head(ss) \o Flatten(Tail(ss))

\* the values assigned to self.state since the last accepted Send, in order,
\* without immediate repetitions
RECURSIVE StateTrace(_)
StateTrace(log) ==
    IF log = <<>> THEN <<>>
    ELSE LET rest == StateTrace(Tail(log))
             s == Head(log)[1]
         IN  IF s \notin LifecycleStates THEN rest
             ELSE IF rest # <<>> /\ Head(rest) = s THEN rest
             ELSE <<s>> \o rest

IsPrefix(a, b) == Len(a) <= Len(b) /\ SubSeq(b, 1, Len(a)) = a

\* the last accepted Send started a retrieval turn / a direct chat turn
RetrievalTurn == Len(turn.log) >= 2 /\ turn.log[2] = <<"Scanning", 0>>
DirectTurn == Len(turn.log) >= 2 /\ turn.log[2] = <<"Generating", 0>>

(***************************************************************************)
(* C1. LifecycleState is Idle exactly when no spawned worker still awaits  *)
(* the application of its terminal event, and while it is Scanning or      *)
(* Generating exactly one worker does.                                     *)
(***************************************************************************)
C1_IdleIffNoWorkerInFlight ==
    /\ (state = "Idle") <=> (AwaitingTerminal = {})
    /\ state \in {"Scanning", "Generating"} => Cardinality(AwaitingTerminal) = 1

(***************************************************************************)
(* C2. A Send click while LifecycleState is Scanning or Generating changes *)
(* nothing: no step taken from such a state appends a user Turn or spawns  *)
(* a worker on behalf of the GUI, and the dropped click itself leaves      *)
(* history, workers, LifecycleState, the evidence buffer, the pending      *)
(* image and the channel as they were.                                     *)
(***************************************************************************)
C2_SendWhileBusyHasNoEffect ==
    [][state # "Idle" =>
         /\ UserTurns(messages') = UserTurns(messages)
         /\ \A k \in 1..Len(turn'.log) : k > Len(turn.log) => turn'.log[k][2] # 0
         /\ turn'.base = turn.base
         /\ ignored' # ignored =>
               UNCHANGED <<messages, workers, state, research_results,
                           current_image_base64, current_image_path, chan>>]_vars

C2_Witness ==
    /\ ignored > 0
    /\ state = "Generating"
    /\ Len(messages) = 1
    /\ Len(workers) = 1

(***************************************************************************)
(* C5. The content events applied since the last user Turn was appended    *)
(* leave exactly one assistant Turn after it, whose text is their payloads *)
(* concatenated in order; the Turns up to the user Turn are unchanged.     *)
(***************************************************************************)
C5_ContentEventsConcatenate ==
    turn.streamed # <<>> =>
        /\ Len(messages) = Len(turn.hist) + 1
        /\ SubSeq(messages, 1, Len(turn.hist)) = turn.hist
        /\ turn.hist[Len(turn.hist)].role = "user"
        /\ messages[Len(messages)].role = "assistant"
        /\ messages[Len(messages)].content = Flatten(turn.streamed)

\* two content events have been applied since the user Turn
C5_Witness ==
    /\ Len(turn.streamed) = 2
    /\ turn.streamed[1] # <<>> /\ turn.streamed[2] # <<>>
    /\ messages[Len(messages)].content = turn.streamed[1] \o turn.streamed[2]

(***************************************************************************)
(* C6. Handling __DONE__ sets LifecycleState to Idle whatever the state,   *)
(* history and buffers are, changes neither history nor the evidence       *)
(* buffer, and handling it a second time changes nothing more.             *)
(***************************************************************************)
C6_DoneIsIdempotent ==
    LET m == [text |-> DONE, from |-> 0]
        once == HandleMsg(App, m)
        twice == HandleMsg(once, m)
    IN  /\ once.state = "Idle"
        /\ once.messages = messages
        /\ once.research_results = research_results
        /\ once.workers = workers
        /\ once.current_image_base64 = current_image_base64
        /\ twice.state = once.state
        /\ twice.messages = once.messages
        /\ twice.research_results = once.research_results
        /\ twice.workers = once.workers

\* __DONE__ has been handled twice in a row, the second time in state Idle
C6_Witness ==
    \E k \in 2..Len(turn.log) :
        /\ turn.log[k][1] = "Idle" /\ turn.log[k][2] > 0
        /\ turn.log[k-1][1] = "Idle" /\ turn.log[k-1][2] > 0
        /\ state = "Idle"

(***************************************************************************)
(* C3. After a Send accepted with retrieval mode on, LifecycleState goes   *)
(* Idle -> Scanning -> Generating -> Idle until it is Idle again.          *)
(***************************************************************************)
\* tr up to and including its first return to Idle
UpToReturn(tr) ==
    LET back == {k \in 2..Len(tr) : tr[k] = "Idle"}
    IN  IF back = {} THEN tr
        ELSE SubSeq(tr, 1, CHOOSE k \in back : \A j \in back : k <= j)

C3_RetrievalTurnTrace ==
    RetrievalTurn =>
        IsPrefix(UpToReturn(StateTrace(turn.log)),
                 <<"Idle", "Scanning", "Generating", "Idle">>)

(***************************************************************************)
(* C4. Under fair scheduling of the workers and of update(), whenever      *)
(* LifecycleState is not Idle it is eventually Idle again.                 *)
(***************************************************************************)
C4_EventuallyIdle == (state # "Idle") ~> (state = "Idle")

(***************************************************************************)
(* C7. After a Send accepted with retrieval mode off: one inference worker *)
(* and no other is spawned, its captured evidence is empty, LifecycleState *)
(* goes Idle -> Generating -> Idle, and once it is Idle again history is   *)
(* the history before the Send plus the user Turn plus one assistant Turn. *)
(***************************************************************************)
C7_DirectTurnEndToEnd ==
    DirectTurn =>
        /\ Len(workers) = turn.base + 1
        /\ workers[turn.base + 1].kind = "inference"
        /\ workers[turn.base + 1].pc = "request" =>
               workers[turn.base + 1].research_context = <<>>
        /\ IsPrefix(StateTrace(turn.log), <<"Idle", "Generating", "Idle">>)
        /\ Len(StateTrace(turn.log)) = 3 =>
               /\ Len(messages) = Len(turn.hist) + 1
               /\ SubSeq(messages, 1, Len(turn.hist)) = turn.hist
               /\ turn.hist[Len(turn.hist)].role = "user"
               /\ messages[Len(messages)].role = "assistant"

(***************************************************************************)
(* C10. When the next queued message is the __RESEARCH_DATA__ event of a   *)
(* retrieval worker that aggregated the buffer B, handling it leaves       *)
(* exactly B as the evidence: in the request of the inference worker it    *)
(* spawns, or else in research_results.                                    *)
(***************************************************************************)
C10_EvidenceRoundTrip ==
    (/\ chan # <<>>
     /\ workers[chan[1].from].kind = "retrieval"
     /\ starts_with(chan[1].text, RESEARCH_DATA)) =>
        LET B == SubSeq(chan[1].text, Len(RESEARCH_DATA) + 2, Len(chan[1].text))
            after == HandleMsg(App, chan[1])
        IN  IF Len(after.workers) > Len(workers)
            THEN after.workers[Len(after.workers)].research_context = B
            ELSE after.research_results = B

(***************************************************************************)
(* C8. In a retrieval turn whose scan finds evidence, no inference worker  *)
(* is spawned before the scan's __RESEARCH_DATA__ event is handled; the    *)
(* inference worker spawned on that event holds non-empty evidence; and    *)
(* research_results is empty right after that spawn.                       *)
(***************************************************************************)
\* the retrieval worker of the current turn
Scanner == turn.base + 1

\* its scan found evidence: its __RESEARCH_DATA__ is queued or was handled
FoundEvidence ==
    \/ \E k \in 1..Len(chan) :
          chan[k].from = Scanner /\ starts_with(chan[k].text, RESEARCH_DATA)
    \/ \E k \in 1..Len(turn.log) : turn.log[k] = <<"DATA", Scanner>>

\* the worker spawned at log entry k (every "Generating" entry is one spawn)
SpawnedAt(k) ==
    Scanner + Cardinality({j \in 1..k : turn.log[j][1] = "Generating"})

C8_EvidenceBeforeInference ==
    (RetrievalTurn /\ FoundEvidence) =>
        \A k \in 1..Len(turn.log) :
            turn.log[k][1] = "Generating" =>
                /\ \E j \in 1..(k-1) : turn.log[j] = <<"DATA", Scanner>>
                /\ (turn.log[k][2] = Scanner /\ workers[SpawnedAt(k)].pc = "request") =>
                       workers[SpawnedAt(k)].research_context # <<>>
                /\ (turn.log[k][2] = Scanner /\ k = Len(turn.log)) =>
                       research_results = <<>>

(***************************************************************************)
(* C9. get_relevant_snippet returns the bytes of the document from         *)
(* max(0, i-200) to min(L, i+500), i being the offset in the document of   *)
(* the first case-insensitive occurrence of the keyword, and the empty     *)
(* string when there is none.                                              *)
(***************************************************************************)
\* the offsets of doc at which a case-insensitive occurrence of kw starts
OccursAt(doc, kw) ==
    {i \in 0..Len(doc) :
        /\ is_char_boundary(doc, i)
        /\ starts_with(to_lowercase(SubSeq(doc, i + 1, Min(Len(doc), i + 2 * Len(to_lowercase(kw))))),
                       to_lowercase(kw))}

ExpectedSnippet(doc, kw) ==
    IF OccursAt(doc, kw) = {} THEN <<>>
    ELSE LET i == CHOOSE i \in OccursAt(doc, kw) : \A j \in OccursAt(doc, kw) : i <= j
         IN  SubSeq(doc, Max(0, i - SnippetBefore) + 1, Min(Len(doc), i + SnippetAfter))

C9_SnippetWindow ==
    snippet.called =>
        /\ ~snippet.panic
        /\ snippet.value = ExpectedSnippet(content, keyword)

(***************************************************************************)
(* C11. Between polls research_results is empty whenever LifecycleState is *)
(* Idle or Scanning.                                                       *)
(***************************************************************************)
C11_EvidenceOnlyWhileGenerating ==
    state \in {"Idle", "Scanning"} => research_results = <<>>

\* the messages of worker i still queued in channel q
SentBy(q, i) == SelectSeq(q, LAMBDA m : m.from = i)

\* the step appends exactly the messages texts, from worker i, to the channel
Sends(i, texts) ==
    chan' = chan \o [k \in 1..Len(texts) |-> [text |-> texts[k], from |-> i]]

(***************************************************************************)
(* C12. Every run of the inference worker sends exactly one content event  *)
(* (a message that is no tag: the reply text on success, the fixed error   *)
(* text on failure), then exactly one __DONE__, and nothing else.          *)
(***************************************************************************)
C12_InferenceSendsContentThenDone ==
    [][\A i \in 1..Len(workers) :
         workers[i].kind = "inference" =>
           /\ (workers[i].pc = "request" /\ workers'[i].pc = "finish") =>
                \E text \in ReplyTexts \cup {ERROR_TEXT} :
                    ~IsTag(text) /\ Sends(i, <<text>>)
           /\ (workers[i].pc = "finish" /\ workers'[i].pc = "done") =>
                Sends(i, <<DONE>>)
           /\ workers'[i].pc = workers[i].pc =>
                Len(SentBy(chan', i)) <= Len(SentBy(chan, i))]_vars

\* a terminal event of the retrieval worker: __RESEARCH_EMPTY__, or one
\* __RESEARCH_DATA__ event with a non-empty payload
IsResearchTerminal(text) ==
    \/ text = RESEARCH_EMPTY
    \/ /\ starts_with(text, RESEARCH_DATA \o <<":">>)
       /\ Len(text) > Len(RESEARCH_DATA) + 1

(***************************************************************************)
(* C13. Every run of the retrieval worker sends its __STATUS__ event and   *)
(* then, as its last message, exactly one terminal event: either           *)
(* __RESEARCH_EMPTY__ or one __RESEARCH_DATA__ event; it sends nothing     *)
(* else, and it never ends without the terminal event.                     *)
(***************************************************************************)
C13_RetrievalSendsOneTerminal ==
    [][\A i \in 1..Len(workers) :
         workers[i].kind = "retrieval" =>
           /\ (workers[i].pc = "status" /\ workers'[i].pc # "status") =>
                /\ workers'[i].pc = "scan"
                /\ Sends(i, <<StatusText(workers[i].keyword)>>)
           /\ (workers[i].pc = "scan" /\ workers'[i].pc # "scan") =>
                /\ workers'[i].pc = "done"
                /\ Len(chan') = Len(chan) + 1
                /\ Sends(i, <<chan'[Len(chan')].text>>)
                /\ IsResearchTerminal(chan'[Len(chan')].text)
           /\ workers'[i].pc = workers[i].pc =>
                Len(SentBy(chan', i)) <= Len(SentBy(chan, i))]_vars

\* the message is handled as __RESEARCH_DATA__ or __RESEARCH_EMPTY__
IsResearchEvent(text) ==
    starts_with(text, RESEARCH_DATA) \/ text = RESEARCH_EMPTY

(***************************************************************************)
(* C14. When the next queued message is a __RESEARCH_DATA__ or             *)
(* __RESEARCH_EMPTY__ event and LifecycleState is Idle or Generating,      *)
(* handling it spawns no worker and leaves LifecycleState as it is.        *)
(***************************************************************************)
C14_ResearchEventSpawnsOnlyWhileScanning ==
    (/\ chan # <<>>
     /\ IsResearchEvent(chan[1].text)
     /\ state # "Scanning") =>
        LET after == HandleMsg(App, chan[1])
        IN  /\ after.workers = workers
            /\ after.state = state

\* the Turn appended by the current submission
Submission == turn.hist[Len(turn.hist)]

\* the text handed to a worker at its spawn
HandedText(w) == IF w.kind = "retrieval" THEN w.keyword ELSE w.prompt

ReadableMatching(corpus, kw) ==
    SelectSeq(corpus.docs,
              LAMBDA d : d.text.ok /\ contains(to_lowercase(d.text.value), to_lowercase(kw)))

\* some document of the corpus fails extraction, or the corpus cannot be
\* enumerated
HasFailure(corpus) ==
    \/ ~corpus.glob_ok
    \/ \E k \in 1..Len(corpus.docs) : ~corpus.docs[k].text.ok

NoneReadable(corpus) ==
    \/ ~corpus.glob_ok
    \/ \A k \in 1..Len(corpus.docs) : ~corpus.docs[k].text.ok

(***************************************************************************)
(* C16. Whatever corpus with extraction failures a scanning retrieval      *)
(* worker meets, its scan runs to the end: the buffer holds exactly the    *)
(* source blocks of the readable matching documents, in order, and the     *)
(* worker sends its terminal event, which is __RESEARCH_EMPTY__ when no    *)
(* document is readable or the corpus cannot be enumerated.                *)
(***************************************************************************)
C16_ExtractionFailureSkipsDocument ==
    \A i \in 1..Len(workers) :
        (workers[i].kind = "retrieval" /\ workers[i].pc = "scan") =>
            \A corpus \in {c \in Corpora : HasFailure(c)} :
                LET kw == workers[i].keyword
                    r == ScanCorpus(corpus, kw)
                    docs == IF corpus.glob_ok THEN ReadableMatching(corpus, kw) ELSE <<>>
                IN  /\ ~r.panic
                    /\ r.value = Flatten([k \in 1..Len(docs) |->
                                   SourceBlock(docs[k].file_name,
                                               get_relevant_snippet(docs[k].text.value, kw).value)])
                    /\ NoneReadable(corpus) => ResearchTerminal(r.value) = RESEARCH_EMPTY

(***************************************************************************)
(* C17. When the next queued message is a content event (no tag), handling *)
(* it leaves LifecycleState, the workers, the evidence buffer and the      *)
(* pending image as they are, in whichever state; in the history it only   *)
(* extends the text of the last Turn when that is an assistant Turn, and   *)
(* appends a new assistant Turn when the last Turn is a user Turn.         *)
(***************************************************************************)
C17_ContentTouchesOnlyAssistantTurn ==
    (chan # <<>> /\ ~IsTag(chan[1].text)) =>
        LET text == chan[1].text
            after == HandleMsg(App, chan[1])
            n == Len(messages)
        IN  /\ after.state = state
            /\ after.workers = workers
            /\ after.research_results = research_results
            /\ after.current_image_base64 = current_image_base64
            /\ n > 0
            /\ SubSeq(after.messages, 1, n - 1) = SubSeq(messages, 1, n - 1)
            /\ IF messages[n].role = "assistant"
               THEN /\ Len(after.messages) = n
                    /\ after.messages[n].role = "assistant"
                    /\ after.messages[n].has_image = messages[n].has_image
                    /\ after.messages[n].content = messages[n].content \o text
               ELSE /\ Len(after.messages) = n + 1
                    /\ after.messages[n] = messages[n]
                    /\ after.messages[n + 1] = Message("assistant", text, FALSE)

\* a content event (of a worker of an earlier turn) was applied while the
\* current turn was Scanning: the state is still Scanning, no worker spawned
C17_Witness ==
    /\ state = "Scanning"
    /\ turn.streamed # <<>>
    /\ messages[Len(messages)].role = "assistant"
    /\ \A k \in 1..Len(turn.log) : turn.log[k][1] # "Generating"

(***************************************************************************)
(* C18. The history is append-only over every step: its length never       *)
(* decreases, no Turn changes its role or its image flag, the text of a    *)
(* user Turn never changes, and the text of an assistant Turn changes only *)
(* when it is the last Turn, and then only by being extended.              *)
(***************************************************************************)
C18_HistoryAppendOnly ==
    [][/\ Len(messages') >= Len(messages)
       /\ \A k \in 1..Len(messages) :
             /\ messages'[k].role = messages[k].role
             /\ messages'[k].has_image = messages[k].has_image
             /\ (messages[k].role = "user" \/ k < Len(messages)) =>
                    messages'[k].content = messages[k].content
             /\ IsPrefix(messages[k].content, messages'[k].content)]_vars

\* two turns: user and assistant Turns were appended in alternation and the
\* first assistant Turn is no longer the last one
C18_Witness ==
    /\ Len(messages) = 4
    /\ messages[1].role = "user" /\ messages[2].role = "assistant"
    /\ messages[3].role = "user" /\ messages[4].role = "assistant"
    /\ messages[2].content # <<>> /\ messages[4].content # <<>>

(***************************************************************************)
(* C19. Whenever LifecycleState is Scanning, the keyword held by every     *)
(* running retrieval worker is non-empty: a submission of empty input with *)
(* retrieval mode on starts no retrieval worker.                           *)
(***************************************************************************)
C19_ScanKeywordNonEmpty ==
    state = "Scanning" =>
        \A i \in 1..Len(workers) :
            (workers[i].kind = "retrieval" /\ workers[i].pc \in {"status", "scan"}) =>
                workers[i].keyword # <<>>

\* the inference workers the step spawns, in the order of their spawn
SpawnedInference ==
    SelectSeq([j \in 1..(Len(workers') - Len(workers)) |-> workers'[Len(workers) + j]],
              LAMBDA w : w.kind = "inference")

====
